---- MODULE Spec2Model ----
(***************************************************************************)
(* Model of the web-page-analyzer service: AnalysisService.AnalyzePage,    *)
(* countInaccessibleLinks and linkCheckerWorker.                           *)
(*                                                                         *)
(* Strings are sequences of tokens ("https", "://", "a.com", "/", "x"), so *)
(* that strings.HasPrefix, strings.Contains and concatenation are computed *)
(* on the content of the links.                                            *)
(***************************************************************************)
EXTENDS Integers, Sequences, FiniteSets, Bags, TLC

(* ---------------------------- bounds ----------------------------------- *)

\* Longest list of hrefs of a page whose links are drawn freely.
MaxLinks == 2

\* Longest list of raw links handed to the classification on its own.
MaxRawLinks == 3

\* Largest number of nodes below the document node of a parsed page.
MaxNodes == 4

\* Number of anchors of the page with many identical links (more links than
\* workers, as in TestAnalyzePage_ConcurrentLinkChecking).
ManyLinks == 11

(* ------------------------- program constants --------------------------- *)

\* Mutant of NumWorkers: the spawn loop runs once more (w <= 10).
NumWorkersOffByOne == 10 + 1

\* for w := 0; w < 10; w++  -- "Cap at 10 concurrent checks"
NumWorkers == 10

\* resp.StatusCode < 200 || resp.StatusCode >= 400
ProbeStatusLow == 200
ProbeStatusHigh == 400

\* response.StatusCode < 200 || response.StatusCode >= 300
PageStatusLow == 200
PageStatusHigh == 300

(* ------------------------------ strings -------------------------------- *)

\* strings.HasPrefix(s, prefix)
HasPrefix(s, prefix) ==
    /\ Len(prefix) <= Len(s)
    /\ SubSeq(s, 1, Len(prefix)) = prefix

\* Mutant of Contains: the substring is looked for at the start of s only.
ContainsAtStart(s, substr) == HasPrefix(s, substr)

\* strings.Contains(s, substr)
Contains(s, substr) ==
    \E k \in 0..(Len(s) - Len(substr)) : SubSeq(s, k + 1, k + Len(substr)) = substr

\* url.Parse as used by http.NewRequestWithContext: a URL that starts with
\* "://" has no protocol scheme and is rejected ("missing protocol scheme").
ParseFails(u) == HasPrefix(u, <<"://">>)

\* URL.Scheme and URL.Host of a parsed URL scheme "://" host ...
Scheme(u) == IF Len(u) >= 2 /\ u[2] = "://" THEN <<u[1]>> ELSE <<>>
Host(u) == IF Len(u) >= 3 /\ u[2] = "://" THEN <<u[3]>> ELSE <<>>

(* ------------------------------ inputs --------------------------------- *)

RelLink == <<"/", "x">>
SameOriginLink == <<"https", "://", "a.com", "/", "z">>
ExtLink == <<"https", "://", "b.com">>
BadLink == <<"://", "invalid-url">>

\* hrefs a page may carry
Hrefs == {RelLink, SameOriginLink, ExtLink, BadLink}

GoodPageURL == <<"https", "://", "a.com", "/", "y">>
BadPageURL == <<"://", "a.com">>
PageURLs == {GoodPageURL, BadPageURL}

\* Links of the other kinds the classification meets: the mailto: link and
\* the fragment of TestAnalyzePage_LinkCategorization, a tel: link, a path
\* without leading slash, a link of another origin that carries the page's
\* origin in its query, and a protocol-relative link.
MailtoLink == <<"mailto:", "test@a.com">>
FragmentLink == <<"#", "anchor">>
TelLink == <<"tel:", "123">>
NoSlashPath == <<"x", "/", "y">>
EmbeddedOriginLink == <<"https", "://", "b.com", "/", "?", "u", "=", "https", "://", "a.com">>
ProtocolRelativeLink == <<"/", "/", "b.com">>

RawLinks == Hrefs \cup {MailtoLink, FragmentLink, TelLink, NoSlashPath,
                        EmbeddedOriginLink, ProtocolRelativeLink}

\* A page of the other origin, under another scheme.
OtherPageURL == <<"http", "://", "b.com", "/">>

\* Status codes a server answers with (the boundaries of both status tests).
StatusCodes == {199, 200, 299, 300, 399, 400, 404, 500}

RECURSIVE SeqsUpTo(_, _)
SeqsUpTo(S, n) ==
    IF n = 0 THEN {<<>>}
    ELSE LET shorter == SeqsUpTo(S, n - 1)
         IN shorter \cup {Append(s, x) : s \in {t \in shorter : Len(t) = n - 1}, x \in S}

\* A page with more external links than workers, as those of
\* TestAnalyzePage_ConcurrentLinkChecking and BenchmarkCountInaccessibleLinks.
ManyLinksPage == [k \in 1..ManyLinks |-> ExtLink]

\* The transport behind httpClient.Do for HEAD requests, as the mocks of the
\* test suite: one status for every probe, an error for every probe, or a 404
\* on every third call.
Transports ==
    {[kind |-> "status", code |-> c] : c \in StatusCodes}
        \cup {[kind |-> "error", code |-> 0], [kind |-> "everyThird", code |-> 0]}


ManyLinksTransports == {[kind |-> "status", code |-> c] : c \in {200, 404}}

(* ------------------------------- state --------------------------------- *)

VARIABLES
    ctx,            \* the context: "background", "live" (cancellable) or "done"
    pageURL,        \* argument of AnalyzePage
    transport,      \* behaviour of httpClient.Do for HEAD requests
    callCount,      \* HEAD calls answered by the transport so far
    pc,             \* statement the AnalyzePage goroutine is at
    response,       \* response of the page fetch: [nil, open (its Body), StatusCode]
    result,         \* result of analyzer.Analyze: [nil, Links]
    internalLinks, externalLinks, internalLinksFormatted,
    inaccessibleExternalLinksCount, inaccessibleInternalLinksCount,
    ret,            \* what AnalyzePage returned: [returned, dto, err]
    call,           \* which countInaccessibleLinks call is running
    links,          \* argument of countInaccessibleLinks
    jobs, jobsClosed,       \* buffer and closed flag of the jobs channel
    results, resultsClosed, \* buffer and closed flag of the results channel
    wg,             \* counter of the sync.WaitGroup
    w,              \* loop counter of the spawn loop
    next,           \* index of the next link to enqueue
    inaccessibleCount,
    workers,        \* bag of the live linkCheckerWorker goroutines
    hist,           \* history of the running call and of the execution
    doc,            \* the node tree html.Parse returned, in document order
    apc,            \* statement analyzer.Analyze is at
    stack,          \* the active calls of traverseTags: [n, c]
    analysis,       \* the AnalysisResult that traverseTags fills
    xhist,          \* history of the traversal: nodes entered, forms scanned
    analyzeRet      \* what analyzer.Analyze returned: result, err

\* The state of the analyzer package.
extractVars == <<doc, apc, stack, analysis, xhist, analyzeRet>>

progVars == <<ctx, pageURL, transport, extractVars, callCount, pc, response, result,
              internalLinks, externalLinks, internalLinksFormatted,
              inaccessibleExternalLinksCount, inaccessibleInternalLinksCount, ret>>
poolVars == <<call, links, jobs, jobsClosed, results, resultsClosed, wg, w, next,
              inaccessibleCount, workers>>
progVars_but_pc == <<ctx, pageURL, transport, extractVars, callCount, response, result,
                     internalLinks, externalLinks, internalLinksFormatted,
                     inaccessibleExternalLinksCount, inaccessibleInternalLinksCount, ret>>
vars == <<progVars, poolVars, hist>>

(* ------------------------------ html nodes ----------------------------- *)

\* The document node html.Parse returns has number 0, the nodes below it are
\* numbered 1, 2, ... in the order of their start in the page; a nil
\* *html.Node is -1.
Root == 0
Nil == 0 - 1

Attribute(k, v) == [Key |-> k, Val |-> v]
Element(tag, attrs) == [Type |-> "ElementNode", Data |-> tag, Attr |-> attrs]
Text(t) == [Type |-> "TextNode", Data |-> t, Attr |-> <<>>]
DocumentNode == [Type |-> "DocumentNode", Data |-> "", Attr |-> <<>>, Parent |-> Nil]

\* The nodes of pages with forms: a form, a password input whose type is
\* written in mixed case, a text input, and an element without a rule.
FormKinds ==
    {Element("form", <<>>),
     Element("input", <<Attribute("name", "password"), Attribute("type", "Password")>>),
     Element("input", <<Attribute("type", "text"), Attribute("name", "username")>>),
     Element("div", <<>>)}

\* The nodes of pages with links: two anchors with an href, one with an
\* empty href, one without href, and an element without a rule.
LinkKinds ==
    {Element("a", <<Attribute("href", "link1.html")>>),
     Element("a", <<Attribute("class", "button"), Attribute("href", "link2.html")>>),
     Element("a", <<Attribute("href", "")>>),
     Element("a", <<>>),
     Element("div", <<>>)}

\* The nodes of pages with titles: a title, two texts, and an element without
\* a rule.
TitleKinds ==
    {Element("title", <<>>),
     Text("First Title"),
     Text("   Spaced Title   "),
     Element("head", <<>>)}

\* The nodes of pages with headings: the doctype node of <!DOCTYPE html> and
\* the one of an HTML 4.01 doctype (the parser keeps the public and the
\* system identifier as attributes), two heading levels, and an element
\* without a rule.
HeadingKinds ==
    {[Type |-> "DoctypeNode", Data |-> "html", Attr |-> <<>>],
     [Type |-> "DoctypeNode", Data |-> "html",
      Attr |-> <<Attribute("public", "-//W3C//DTD HTML 4.01//EN"),
                 Attribute("system", "http://www.w3.org/TR/html4/strict.dtd")>>],
     Element("h1", <<>>),
     Element("h2", <<>>),
     Element("div", <<>>)}

\* The nodes of pages with headings and anchors inside forms.
MixedKinds ==
    {Element("form", <<>>),
     Element("input", <<Attribute("type", "password")>>),
     Element("h1", <<>>),
     Element("a", <<Attribute("href", "link1.html")>>)}

\* The nodes of pages with an svg drawing: the svg element, a title, which is
\* the title of the drawing when it is a child of the svg element, a text and
\* a formatting element.
SvgKinds ==
    {Element("svg", <<>>),
     Element("title", <<>>),
     Text("First Title"),
     Element("b", <<>>)}

\* The nodes of pages that differ in their shape: an element without a rule
\* and one with a rule.
ShapeKinds ==
    {Element("div", <<>>),
     Element("h1", <<>>)}

HeadingTags == {"h1", "h2", "h3", "h4", "h5", "h6"}

\* The nodes on the way from node i of the tree t up to the document node.
RECURSIVE AncestorsOrSelf(_, _)
AncestorsOrSelf(t, i) ==
    IF i = Root THEN {Root} ELSE {i} \cup AncestorsOrSelf(t, t[i].Parent)

\* What the parser lets the node p of the tree t take as its next child: a
\* text and an input have no children, the title of a page holds one text at
\* most while the title of an svg drawing is parsed as markup, two texts are
\* never neighbours, an anchor is never inside an anchor, a heading
\* is never the child of a heading, and a doctype is the first node of the
\* page or is dropped.
CanTake(t, p, k) ==
    LET children == {i \in 1..Len(t) : t[i].Parent = p}
        last == CHOOSE i \in children : \A j \in children : j <= i
    IN /\ p # Root => /\ t[p].Type = "ElementNode"
                      /\ t[p].Data # "input"
                      /\ t[p].Data = "title" =>
                            \/ k.Type = "TextNode" /\ children = {}
                            \/ t[p].Parent # Root /\ t[t[p].Parent].Data = "svg"
       /\ (k.Type = "TextNode" /\ children # {}) => t[last].Type # "TextNode"
       /\ k.Data = "a" => \A i \in AncestorsOrSelf(t, p) \ {Root} : t[i].Data # "a"
       /\ (k.Data \in HeadingTags /\ p # Root) => t[p].Data \notin HeadingTags
       /\ k.Type = "DoctypeNode" => t = <<>>

\* The trees of n nodes below the document node, with nodes of the kinds K,
\* as sequences in document order: a node is the next child of the node
\* before it or of one of that node's ancestors.
RECURSIVE TreesOf(_, _)
TreesOf(K, n) ==
    IF n = 0 THEN {<<>>}
    ELSE {Append(x[1], [Type |-> x[2].Type, Data |-> x[2].Data, Attr |-> x[2].Attr,
                        Parent |-> x[3]]) :
             x \in {y \in TreesOf(K, n - 1) \X K \X (0..(n - 1)) :
                       /\ y[3] \in AncestorsOrSelf(y[1], n - 1)
                       /\ CanTake(y[1], y[3], y[2])}}

\* The kinds of pages handed to Analyze.
PageKinds == {FormKinds, LinkKinds, TitleKinds, HeadingKinds, MixedKinds, SvgKinds}

\* The node with number n of the parsed page.
Node(n) == IF n = Root THEN DocumentNode ELSE doc[n]

\* n.FirstChild
FirstChild(n) ==
    LET children == {i \in 1..Len(doc) : doc[i].Parent = n}
    IN IF children = {} THEN Nil
       ELSE CHOOSE i \in children : \A j \in children : i <= j

\* Mutant of NextSibling: a node has no later sibling.
NextSiblingNone(n) == Nil

\* n.NextSibling
NextSibling(n) ==
    LET later == {i \in (n + 1)..Len(doc) : doc[i].Parent = Node(n).Parent}
    IN IF n = Root \/ later = {} THEN Nil
       ELSE CHOOSE i \in later : \A j \in later : i <= j

\* Mutant of ToLower: the case is kept.
ToLowerKeepsCase(v) == v

\* strings.ToLower, on the attribute values of the pages
ToLower(v) ==
    CASE v = "Password" -> "password"
      [] v = "PASSWORD" -> "password"
      [] v = "TEXT" -> "text"
      [] OTHER -> v

\* A Go map: nil, or made and holding the count of every key put into it.
NilMap == [nil |-> TRUE, m |-> [t \in {} |-> 0]]
MakeMap == [nil |-> FALSE, m |-> [t \in {} |-> 0]]

\* Mutant of NewAnalysisResult: the Headings map is left nil.
NewAnalysisResultNilMap ==
    [HTMLVersion |-> "", Title |-> "", Headings |-> NilMap,
     HasLoginForm |-> FALSE, Links |-> <<>>]

\* result := &AnalysisResult{Headings: make(map[string]int)}
NewAnalysisResult ==
    [HTMLVersion |-> "", Title |-> "", Headings |-> MakeMap,
     HasLoginForm |-> FALSE, Links |-> <<>>]

\* Analyze has not returned; return result, nil.
NoReturn == [returned |-> FALSE, resultNil |-> TRUE, err |-> [msg |-> "nil", code |-> 0, wraps |-> "nil"]]
AnalyzeReturn == [returned |-> TRUE, resultNil |-> FALSE, err |-> [msg |-> "nil", code |-> 0, wraps |-> "nil"]]

NoTraversal == [visited |-> <<>>, scanned |-> <<>>]

\* ctx.Done() is closed: the context was cancelled or its deadline passed.
CtxDone == ctx = "done"

\* A worker blocked in "for link := range jobs".
IdleWorker == [pc |-> "recv", link |-> <<>>, val |-> FALSE, status |-> 0]

\* Number of goroutines of the bag whose state is in S.
RECURSIVE CountWorkers(_)
CountWorkers(S) ==
    IF S = {} THEN 0
    ELSE LET x == CHOOSE y \in S : TRUE
         IN CopiesIn(x, workers) + CountWorkers(S \ {x})

IsInFlight(x) == x.pc = "do"
HoldsBody(x) == x.status # 0
InFlight == CountWorkers({x \in BagToSet(workers) : IsInFlight(x)})
OpenProbeBodies == CountWorkers({x \in BagToSet(workers) : HoldsBody(x)})

\* workers with one goroutine in state a moved to state b
Move(a, b) == (workers (-) SetToBag({a})) (+) SetToBag({b})

NoHist == [dequeued |-> 0, outcomes |-> 0, inaccessible |-> 0, spawned |-> 0,
           callCount0 |-> 0, doneAtEntry |-> FALSE, gets |-> 0, heads |-> 0]

\* The Links of the parsed page: any short list of hrefs and, in the set-up
\* of BenchmarkCountInaccessibleLinks and TestCountInaccessibleLinks_
\* AllInaccessible (context.Background(), every probe answered 200, or every
\* probe answered 404), the page with many links.
PageLinkLists ==
    SeqsUpTo(Hrefs, MaxLinks)
        \cup (IF ctx = "background" /\ transport \in ManyLinksTransports
              THEN {ManyLinksPage} ELSE {})

\* Calls the counter of the every-third transport has seen before the
\* analysis starts (the mock outlives one call of the service).
PriorCalls == IF transport.kind = "everyThird" THEN {0, 1, 2} ELSE {0}

\* nil values of the pointer and error types
NilResponse == [nil |-> TRUE, open |-> FALSE, StatusCode |-> 0]
NilResult == [nil |-> TRUE, Links |-> <<>>]
NilErr == [msg |-> "nil", code |-> 0, wraps |-> "nil"]
NilDTO == [nil |-> TRUE, InternalLinksCount |-> 0, ExternalLinksCount |-> 0,
           InaccessibleExternalLinksCount |-> 0, InaccessibleInternalLinksCount |-> 0,
           InternalLinks |-> <<>>, ExternalLinks |-> <<>>]
\* An error value: its format, the integer formatted into it with %d (0 when
\* there is none) and the error wrapped into it with %w ("nil" when none).
Err(m, c) == [msg |-> m, code |-> c, wraps |-> "nil"]

\* Mutant of Wrap: the inner error is formatted with %v, which keeps its
\* text and loses its identity.
WrapOpaque(m, inner) == [msg |-> m, code |-> 0, wraps |-> "nil"]

\* fmt.Errorf(m, inner) with a %w verb
Wrap(m, inner) == [msg |-> m, code |-> 0, wraps |-> inner.msg]

\* errors.Is(err, target): err or the error it wraps is target.
Is(err, target) == err.msg = target \/ err.wraps = target

Init ==
    /\ ctx \in {"background", "live", "done"}
    /\ pageURL \in PageURLs
    /\ transport \in Transports
    /\ callCount \in PriorCalls
    /\ pc = "start"
    /\ response = NilResponse
    /\ result = NilResult
    /\ internalLinks = <<>>
    /\ externalLinks = <<>>
    /\ internalLinksFormatted = <<>>
    /\ inaccessibleExternalLinksCount = 0
    /\ inaccessibleInternalLinksCount = 0
    /\ ret = [returned |-> FALSE, dto |-> NilDTO, err |-> NilErr]
    /\ call = "none"
    /\ links = <<>>
    /\ jobs = <<>>
    /\ jobsClosed = FALSE
    /\ results = <<>>
    /\ resultsClosed = FALSE
    /\ wg = 0
    /\ w = 0
    /\ next = 1
    /\ inaccessibleCount = 0
    /\ workers = EmptyBag
    /\ hist = NoHist
    /\ doc = <<>>
    /\ apc = "idle"
    /\ stack = <<>>
    /\ analysis = NewAnalysisResult
    /\ xhist = NoTraversal
    /\ analyzeRet = NoReturn

(* ----------------------------- AnalyzePage ----------------------------- *)

\* Mutant of ReturnFrom: the error is dropped from the return.
ReturnFromDropsErr(dto, err) ==
    /\ ret' = [returned |-> TRUE, dto |-> dto, err |-> NilErr]
    /\ response' = [response EXCEPT !.open = FALSE]
    /\ pc' = "returned"

\* A return statement of AnalyzePage; the deferred response.Body.Close()
\* runs when a response was obtained.
ReturnFrom(dto, err) ==
    /\ ret' = [returned |-> TRUE, dto |-> dto, err |-> err]
    /\ response' = [response EXCEPT !.open = FALSE]
    /\ pc' = "returned"

\* Entry of countInaccessibleLinks(ctx, ls): the two channels, the WaitGroup
\* and the counter are created.
EnterCount(name, ls) ==
    /\ call' = name
    /\ links' = ls
    /\ jobs' = <<>>
    /\ jobsClosed' = FALSE
    /\ results' = <<>>
    /\ resultsClosed' = FALSE
    /\ wg' = 0
    /\ w' = 0
    /\ next' = 1
    /\ inaccessibleCount' = 0
    /\ workers' = EmptyBag
    /\ hist' = [hist EXCEPT !.dequeued = 0, !.outcomes = 0, !.inaccessible = 0,
                            !.spawned = 0, !.callCount0 = callCount,
                            !.doneAtEntry = CtxDone]

\* http.NewRequestWithContext(ctx, http.MethodGet, pageURL, nil), and the
\* call of s.httpClient.Do(req) when the request was constructed.
NewPageRequest ==
    /\ pc = "start"
    /\ IF ParseFails(pageURL)
       THEN /\ ReturnFrom(NilDTO, Wrap("failed to create request: %w",
                                      Err("parse error", 0)))
            /\ UNCHANGED hist
       ELSE /\ pc' = "fetch"
            /\ hist' = [hist EXCEPT !.gets = @ + 1]
            /\ UNCHANGED <<response, ret>>
    /\ UNCHANGED <<ctx, pageURL, transport, extractVars, callCount, result, internalLinks,
                   externalLinks, internalLinksFormatted,
                   inaccessibleExternalLinksCount, inaccessibleInternalLinksCount,
                   poolVars>>

\* What s.httpClient.Do may answer to the GET: an error, or a response with
\* some status code. A transport that honours cancellation answers a
\* cancelled context with ctx.Err().
PageAnswers ==
    IF CtxDone THEN {[err |-> Err("context canceled", 0), StatusCode |-> 0]}
    ELSE {[err |-> Err("network error", 0), StatusCode |-> 0]}
             \cup {[err |-> NilErr, StatusCode |-> c] : c \in StatusCodes}

\* Mutant of PageStatusFails: the upper bound is tested with > instead of >=.
PageStatusFailsAbove(code) == code < PageStatusLow \/ code > PageStatusHigh

\* response.StatusCode < 200 || response.StatusCode >= 300
PageStatusFails(code) == code < PageStatusLow \/ code >= PageStatusHigh

\* Mutant of FetchReturn: after an error of the transport the request is
\* issued once more.
FetchReturnRetries ==
    /\ pc = "fetch"
    /\ \E a \in PageAnswers :
          IF a.err # NilErr
          THEN IF hist.gets < 2
               THEN pc' = "start" /\ UNCHANGED <<response, ret>>
               ELSE ReturnFrom(NilDTO, a.err)
          ELSE /\ response' = [nil |-> FALSE, open |-> TRUE, StatusCode |-> a.StatusCode]
               /\ pc' = "status"
               /\ UNCHANGED ret
    /\ UNCHANGED <<ctx, pageURL, transport, extractVars, callCount, result, internalLinks,
                   externalLinks, internalLinksFormatted,
                   inaccessibleExternalLinksCount, inaccessibleInternalLinksCount,
                   poolVars, hist>>

\* response, err := s.httpClient.Do(req) returns: the error return, or the
\* response whose Body is open.
FetchReturn ==
    /\ pc = "fetch"
    /\ \E a \in PageAnswers :
          IF a.err # NilErr
          THEN ReturnFrom(NilDTO, a.err)
          ELSE /\ response' = [nil |-> FALSE, open |-> TRUE, StatusCode |-> a.StatusCode]
               /\ pc' = "status"
               /\ UNCHANGED ret
    /\ UNCHANGED <<ctx, pageURL, transport, extractVars, callCount, result, internalLinks,
                   externalLinks, internalLinksFormatted,
                   inaccessibleExternalLinksCount, inaccessibleInternalLinksCount,
                   poolVars, hist>>

\* The check of the status code of the page. The code is not read after this
\* statement: past it the model keeps of the response only the state of its
\* Body.
CheckStatus ==
    /\ pc = "status"
    /\ IF PageStatusFails(response.StatusCode)
       THEN ReturnFrom(NilDTO, Err("request failed with status code: %d",
                                   response.StatusCode))
       ELSE /\ response' = [response EXCEPT !.StatusCode = 0]
            /\ pc' = "analyze"
            /\ UNCHANGED ret
    /\ UNCHANGED <<ctx, pageURL, transport, extractVars, callCount, result, internalLinks,
                   externalLinks, internalLinksFormatted,
                   inaccessibleExternalLinksCount, inaccessibleInternalLinksCount,
                   poolVars, hist>>

\* baseURL := URL.Scheme + "://" + URL.Host
BaseURL(u) == Scheme(u) \o <<"://">> \o Host(u)

\* Mutant of Classify: only a link with a scheme separator is taken for an
\* external link, the others are dropped.
ClassifyDropsOthers(ls, baseURL, n) ==
    LET first == SubSeq(ls, 1, n)
        rel == SelectSeq(first, LAMBDA l : HasPrefix(l, <<"/">>))
    IN [internalLinks |->
            SelectSeq(first, LAMBDA l : HasPrefix(l, <<"/">>) \/ Contains(l, baseURL)),
        externalLinks |->
            SelectSeq(first, LAMBDA l : /\ ~HasPrefix(l, <<"/">>)
                                        /\ ~Contains(l, baseURL)
                                        /\ Contains(l, <<"://">>)),
        internalLinksFormatted |-> [k \in 1..Len(rel) |-> baseURL \o rel[k]]]

\* The classification loop over result.Links: the three lists after the
\* first n links.
RECURSIVE Classify(_, _, _)
Classify(ls, baseURL, n) ==
    IF n = 0
    THEN [internalLinks |-> <<>>, externalLinks |-> <<>>, internalLinksFormatted |-> <<>>]
    ELSE LET c == Classify(ls, baseURL, n - 1)
             link == ls[n]
         IN IF HasPrefix(link, <<"/">>)
            THEN [c EXCEPT !.internalLinks = Append(@, link),
                           !.internalLinksFormatted = Append(@, baseURL \o link)]
            ELSE IF Contains(link, baseURL)
                 THEN [c EXCEPT !.internalLinks = Append(@, link)]
                 ELSE [c EXCEPT !.externalLinks = Append(@, link)]

\* result, err := analyzer.Analyze(response.Body), the classification of
\* result.Links and the entry of the first countInaccessibleLinks call.
Analyze ==
    /\ pc = "analyze"
    /\ \/ /\ ReturnFrom(NilDTO, Err("read error", 0))
          /\ UNCHANGED <<result, internalLinks, externalLinks, internalLinksFormatted,
                         poolVars, hist>>
       \/ \E ls \in PageLinkLists :
             LET c == Classify(ls, BaseURL(pageURL), Len(ls))
             IN /\ result' = [nil |-> FALSE, Links |-> ls]
                /\ internalLinks' = c.internalLinks
                /\ externalLinks' = c.externalLinks
                /\ internalLinksFormatted' = c.internalLinksFormatted
                /\ EnterCount("external", c.externalLinks)
                /\ pc' = "spawn"
                /\ UNCHANGED <<response, ret>>
    /\ UNCHANGED <<ctx, pageURL, transport, extractVars, callCount,
                   inaccessibleExternalLinksCount, inaccessibleInternalLinksCount>>


(* ----------------------- countInaccessibleLinks ------------------------ *)

\* make(chan string, len(links))
JobsCap == Len(links)

\* Mutant of ResultsCap: the results channel is one slot short.
ResultsCapShort == Len(links) - 1

\* make(chan bool, len(links))
ResultsCap == Len(links)

\* wg.Add(1); go s.linkCheckerWorker(ctx, &wg, jobs, results)
Spawn ==
    /\ pc = "spawn"
    /\ w < NumWorkers
    /\ wg' = wg + 1
    /\ workers' = workers (+) SetToBag({IdleWorker})
    /\ w' = w + 1
    /\ hist' = [hist EXCEPT !.spawned = @ + 1]
    /\ pc' = IF w + 1 < NumWorkers THEN "spawn" ELSE "send"
    /\ UNCHANGED <<progVars_but_pc, call, links, jobs, jobsClosed, results,
                   resultsClosed, next, inaccessibleCount>>

\* jobs <- link
SendJob ==
    /\ pc = "send"
    /\ next <= Len(links)
    /\ Len(jobs) < JobsCap
    /\ jobs' = Append(jobs, links[next])
    /\ next' = next + 1
    /\ UNCHANGED <<progVars, call, links, jobsClosed, results, resultsClosed, wg, w,
                   inaccessibleCount, workers, hist>>

\* Mutant of CloseJobs: the channel is closed before every link was sent.
CloseJobsEarly ==
    /\ pc = "send"
    /\ jobsClosed' = TRUE
    /\ pc' = "wait"
    /\ UNCHANGED <<progVars_but_pc, call, links, jobs, results, resultsClosed, wg, w,
                   next, inaccessibleCount, workers, hist>>

\* close(jobs)
CloseJobs ==
    /\ pc = "send"
    /\ next > Len(links)
    /\ jobsClosed' = TRUE
    /\ pc' = "wait"
    /\ UNCHANGED <<progVars_but_pc, call, links, jobs, results, resultsClosed, wg, w,
                   next, inaccessibleCount, workers, hist>>

\* wg.Wait()
Wait ==
    /\ pc = "wait"
    /\ wg = 0
    /\ pc' = "closeResults"
    /\ UNCHANGED <<progVars_but_pc, poolVars, hist>>

\* close(results)
CloseResults ==
    /\ pc = "closeResults"
    /\ resultsClosed' = TRUE
    /\ pc' = "collect"
    /\ UNCHANGED <<progVars_but_pc, call, links, jobs, jobsClosed, results, wg, w,
                   next, inaccessibleCount, workers, hist>>

\* Mutant of RangeEnds: the loop ends as soon as the channel is closed,
\* whatever it still holds.
RangeEndsOnClose(q, closed) == closed

\* A range loop over a channel ends when the channel is closed and drained.
RangeEnds(q, closed) == q = <<>> /\ closed

\* Mutant of Tally: the test of the outcome is inverted.
TallyAccessible(count, isAccessible) == IF isAccessible THEN count + 1 ELSE count

\* if !isAccessible { inaccessibleCount++ }
Tally(count, isAccessible) == IF ~isAccessible THEN count + 1 ELSE count

\* for isAccessible := range results { ... }: one iteration, or the end of
\* the loop on the closed and drained channel.
Collect ==
    /\ pc = "collect"
    /\ IF results # <<>>
       THEN /\ inaccessibleCount' = Tally(inaccessibleCount, Head(results))
            /\ results' = Tail(results)
            /\ pc' = "collect"
       ELSE /\ RangeEnds(results, resultsClosed)
            /\ pc' = "return"
            /\ UNCHANGED <<inaccessibleCount, results>>
    /\ UNCHANGED <<progVars_but_pc, call, links, jobs, jobsClosed, resultsClosed, wg,
                   w, next, workers, hist>>

\* return inaccessibleCount, back in AnalyzePage: the assignment of the
\* count and the next statement (the second call, or the dto).
ReturnCount ==
    /\ pc = "return"
    /\ IF call = "external"
       THEN /\ inaccessibleExternalLinksCount' = inaccessibleCount
            /\ EnterCount("internal", internalLinksFormatted)
            /\ pc' = "spawn"
            /\ UNCHANGED inaccessibleInternalLinksCount
       ELSE /\ inaccessibleInternalLinksCount' = inaccessibleCount
            /\ pc' = "assemble"
            /\ UNCHANGED <<inaccessibleExternalLinksCount, poolVars, hist>>
    /\ UNCHANGED <<ctx, pageURL, transport, extractVars, callCount, response, result,
                   internalLinks, externalLinks, internalLinksFormatted, ret>>

\* Mutant of Assemble: an inaccessible link is surfaced as an error of the
\* analysis.
AssembleFailsOnInaccessible ==
    /\ pc = "assemble"
    /\ ret' = [returned |-> TRUE,
               dto |-> IF inaccessibleExternalLinksCount + inaccessibleInternalLinksCount > 0
                       THEN NilDTO
                       ELSE [NilDTO EXCEPT !.nil = FALSE],
               err |-> IF inaccessibleExternalLinksCount + inaccessibleInternalLinksCount > 0
                       THEN Err("inaccessible links", 0)
                       ELSE NilErr]
    /\ response' = [response EXCEPT !.open = FALSE]
    /\ pc' = "returned"
    /\ UNCHANGED <<ctx, pageURL, transport, extractVars, callCount, result, internalLinks,
                   externalLinks, internalLinksFormatted,
                   inaccessibleExternalLinksCount, inaccessibleInternalLinksCount,
                   poolVars, hist>>

\* Mutant of Assemble: the two inaccessible counts are stored in each
\* other's field.
AssembleSwapsCounts ==
    /\ pc = "assemble"
    /\ ReturnFrom([nil |-> FALSE,
                   InternalLinksCount |-> Len(internalLinks),
                   ExternalLinksCount |-> Len(externalLinks),
                   InaccessibleExternalLinksCount |-> inaccessibleInternalLinksCount,
                   InaccessibleInternalLinksCount |-> inaccessibleExternalLinksCount,
                   InternalLinks |-> internalLinks,
                   ExternalLinks |-> externalLinks], NilErr)
    /\ UNCHANGED <<ctx, pageURL, transport, extractVars, callCount, result, internalLinks,
                   externalLinks, internalLinksFormatted,
                   inaccessibleExternalLinksCount, inaccessibleInternalLinksCount,
                   poolVars, hist>>

\* dto := &AnalysisServiceResultDTO{...}; return dto, nil
Assemble ==
    /\ pc = "assemble"
    /\ ReturnFrom([nil |-> FALSE,
                   InternalLinksCount |-> Len(internalLinks),
                   ExternalLinksCount |-> Len(externalLinks),
                   InaccessibleExternalLinksCount |-> inaccessibleExternalLinksCount,
                   InaccessibleInternalLinksCount |-> inaccessibleInternalLinksCount,
                   InternalLinks |-> internalLinks,
                   ExternalLinks |-> externalLinks], NilErr)
    /\ UNCHANGED <<ctx, pageURL, transport, extractVars, callCount, result, internalLinks,
                   externalLinks, internalLinksFormatted,
                   inaccessibleExternalLinksCount, inaccessibleInternalLinksCount,
                   poolVars, hist>>

(* --------------------------- linkCheckerWorker ------------------------- *)

\* Mutant of AfterRecv: on a construction error the worker continues with
\* the next job without sending an outcome.
AfterRecvSkip(link) ==
    IF ParseFails(link)
    THEN IdleWorker
    ELSE [pc |-> "do", link |-> link, val |-> FALSE, status |-> 0]

\* The worker after "link := <-jobs" and http.NewRequestWithContext(ctx,
\* http.MethodHead, link, nil): on an error it is about to send false (and
\* then continues with the next job), otherwise it calls s.httpClient.Do(req).
AfterRecv(link) ==
    IF ParseFails(link)
    THEN [pc |-> "send", link |-> link, val |-> FALSE, status |-> 0]
    ELSE [pc |-> "do", link |-> link, val |-> FALSE, status |-> 0]

\* for link := range jobs: one job is taken from the channel.
WorkerRecv ==
    /\ BagIn(IdleWorker, workers)
    /\ jobs # <<>>
    /\ LET link == Head(jobs)
       IN /\ jobs' = Tail(jobs)
          /\ workers' = Move(IdleWorker, AfterRecv(link))
          /\ hist' = [hist EXCEPT !.dequeued = @ + 1,
                                  !.heads = IF AfterRecv(link).pc = "do" THEN @ + 1 ELSE @]
    /\ UNCHANGED <<progVars, call, links, jobsClosed, results, resultsClosed, wg, w,
                   next, inaccessibleCount>>

\* The answer of the transport to the n-th HEAD call.
HeadAnswer(n) ==
    IF CtxDone THEN [err |-> TRUE, StatusCode |-> 0]
    ELSE CASE transport.kind = "status" -> [err |-> FALSE, StatusCode |-> transport.code]
           [] transport.kind = "error" -> [err |-> TRUE, StatusCode |-> 0]
           [] transport.kind = "everyThird" ->
                 [err |-> FALSE, StatusCode |-> IF n % 3 = 0 THEN 404 ELSE 200]

\* Mutant of IsAccessible: an error of the transport is not taken for a
\* failure.
IsAccessibleDespiteError(err, code) ==
    err \/ ~(code < ProbeStatusLow \/ code >= ProbeStatusHigh)

\* Mutant of IsAccessible: the upper bound is tested with > instead of >=.
IsAccessibleUpTo400(err, code) ==
    ~(err \/ (code < ProbeStatusLow \/ code > ProbeStatusHigh))

\* err != nil || (resp.StatusCode < 200 || resp.StatusCode >= 400) sends
\* false, anything else sends true.
IsAccessible(err, code) == ~(err \/ (code < ProbeStatusLow \/ code >= ProbeStatusHigh))

\* resp, err := s.httpClient.Do(req) returns.
WorkerDoReturn ==
    \E x \in BagToSet(workers) :
        /\ x.pc = "do"
        /\ LET a == HeadAnswer(callCount + 1)
           IN /\ workers' = Move(x, [x EXCEPT !.pc = "send",
                                              !.val = IsAccessible(a.err, a.StatusCode),
                                              !.status = IF a.err THEN 0 ELSE a.StatusCode])
              /\ callCount' = IF CtxDone THEN callCount ELSE callCount + 1
        /\ UNCHANGED <<ctx, pageURL, transport, extractVars, pc, response, result, internalLinks,
                       externalLinks, internalLinksFormatted,
                       inaccessibleExternalLinksCount, inaccessibleInternalLinksCount,
                       ret, call, links, jobs, jobsClosed, results, resultsClosed, wg,
                       w, next, inaccessibleCount, hist>>

\* Mutant of WorkerSend: the worker adds a failed probe to the counter of
\* the caller itself.
WorkerSendCounts ==
    \E x \in BagToSet(workers) :
        /\ x.pc = "send"
        /\ Len(results) < ResultsCap
        /\ results' = Append(results, TRUE)
        /\ inaccessibleCount' = IF x.val THEN inaccessibleCount ELSE inaccessibleCount + 1
        /\ workers' = Move(x, IF x.status # 0 THEN [x EXCEPT !.pc = "close"]
                              ELSE IdleWorker)
        /\ hist' = [hist EXCEPT !.outcomes = @ + 1,
                                !.inaccessible = IF x.val THEN @ ELSE @ + 1]
        /\ UNCHANGED <<progVars, call, links, jobs, jobsClosed, resultsClosed, wg, w,
                       next>>

\* Mutant of WorkerSend: the worker is back at the head of its loop without
\* closing the body of its response.
WorkerSendSkipsClose ==
    \E x \in BagToSet(workers) :
        /\ x.pc = "send"
        /\ Len(results) < ResultsCap
        /\ results' = Append(results, x.val)
        /\ workers' = Move(x, [IdleWorker EXCEPT !.status = x.status])
        /\ hist' = [hist EXCEPT !.outcomes = @ + 1,
                                !.inaccessible = IF x.val THEN @ ELSE @ + 1]
        /\ UNCHANGED <<progVars, call, links, jobs, jobsClosed, resultsClosed, wg, w,
                       next, inaccessibleCount>>

\* results <- false / results <- true
WorkerSend ==
    \E x \in BagToSet(workers) :
        /\ x.pc = "send"
        /\ Len(results) < ResultsCap
        /\ results' = Append(results, x.val)
        /\ workers' = Move(x, IF x.status # 0 THEN [x EXCEPT !.pc = "close"]
                              ELSE IdleWorker)
        /\ hist' = [hist EXCEPT !.outcomes = @ + 1,
                                !.inaccessible = IF x.val THEN @ ELSE @ + 1]
        /\ UNCHANGED <<progVars, call, links, jobs, jobsClosed, resultsClosed, wg, w,
                       next, inaccessibleCount>>

\* if resp != nil { resp.Body.Close() }, and the worker is back at the
\* head of its loop.
WorkerClose ==
    \E x \in BagToSet(workers) :
        /\ x.pc = "close"
        /\ workers' = Move(x, IdleWorker)
        /\ UNCHANGED <<progVars, call, links, jobs, jobsClosed, results, resultsClosed,
                       wg, w, next, inaccessibleCount, hist>>

\* The range loop of a worker ends: the deferred wg.Done() runs and the
\* goroutine is gone.
WorkerExit ==
    /\ BagIn(IdleWorker, workers)
    /\ RangeEnds(jobs, jobsClosed)
    /\ workers' = workers (-) SetToBag({IdleWorker})
    /\ wg' = wg - 1
    /\ UNCHANGED <<progVars, call, links, jobs, jobsClosed, results, resultsClosed, w,
                   next, inaccessibleCount, hist>>

(* ------------------------------ context -------------------------------- *)

\* The caller cancels ctx, or its deadline passes.
Cancel ==
    /\ ctx = "live"
    /\ pc # "returned"
    /\ ctx' = "done"
    /\ UNCHANGED <<pageURL, transport, extractVars, callCount, pc, response, result, internalLinks,
                   externalLinks, internalLinksFormatted,
                   inaccessibleExternalLinksCount, inaccessibleInternalLinksCount,
                   ret, poolVars, hist>>

\* The steps of the goroutines of the program and of the transport.
Program ==
    \/ NewPageRequest
    \/ FetchReturn
    \/ CheckStatus
    \/ Analyze
    \/ Spawn
    \/ SendJob
    \/ CloseJobs
    \/ Wait
    \/ CloseResults
    \/ Collect
    \/ ReturnCount
    \/ Assemble
    \/ WorkerRecv
    \/ WorkerDoReturn
    \/ WorkerSend
    \/ WorkerClose
    \/ WorkerExit

Next == Program \/ Cancel

Spec == Init /\ [][Next]_vars

\* The scheduler runs every goroutine that can take a step and every call of
\* the transport returns; nothing obliges the caller to cancel the context.
FairSpec == Init /\ [][Next]_vars /\ WF_vars(Program)

(* --------------------- the classification on its own -------------------- *)

\* AnalyzePage at line 798: the page was fetched and parsed, result.Links is
\* any short list of raw links.
ClassifierInit ==
    /\ ctx = "background"
    /\ pageURL \in {GoodPageURL, OtherPageURL}
    /\ transport = [kind |-> "status", code |-> 200]
    /\ callCount = 0
    /\ pc = "classify"
    /\ response = [nil |-> FALSE, open |-> TRUE, StatusCode |-> 0]
    /\ result \in {[nil |-> FALSE, Links |-> ls] : ls \in SeqsUpTo(RawLinks, MaxRawLinks)}
    /\ internalLinks = <<>>
    /\ externalLinks = <<>>
    /\ internalLinksFormatted = <<>>
    /\ inaccessibleExternalLinksCount = 0
    /\ inaccessibleInternalLinksCount = 0
    /\ ret = [returned |-> FALSE, dto |-> NilDTO, err |-> NilErr]
    /\ call = "none"
    /\ links = <<>>
    /\ jobs = <<>>
    /\ jobsClosed = FALSE
    /\ results = <<>>
    /\ resultsClosed = FALSE
    /\ wg = 0
    /\ w = 0
    /\ next = 1
    /\ inaccessibleCount = 0
    /\ workers = EmptyBag
    /\ hist = [NoHist EXCEPT !.gets = 1]
    /\ doc = <<>>
    /\ apc = "idle"
    /\ stack = <<>>
    /\ analysis = NewAnalysisResult
    /\ xhist = NoTraversal
    /\ analyzeRet = NoReturn

\* The classification loop of AnalyzePage, from url.Parse(pageURL) to the end
\* of the loop over result.Links.
ClassifyLinks ==
    /\ pc = "classify"
    /\ LET c == Classify(result.Links, BaseURL(pageURL), Len(result.Links))
       IN /\ internalLinks' = c.internalLinks
          /\ externalLinks' = c.externalLinks
          /\ internalLinksFormatted' = c.internalLinksFormatted
    /\ pc' = "classified"
    /\ UNCHANGED <<ctx, pageURL, transport, extractVars, callCount, response, result,
                   inaccessibleExternalLinksCount, inaccessibleInternalLinksCount,
                   ret, poolVars, hist>>

ClassifierNext == ClassifyLinks

ClassifierSpec == ClassifierInit /\ [][ClassifierNext]_vars

(* ------------------------------ the analyzer --------------------------- *)

\* The variables of the service, which the analyzer does not touch.
serviceVars == <<ctx, pageURL, transport, callCount, pc, response, result,
                 internalLinks, externalLinks, internalLinksFormatted,
                 inaccessibleExternalLinksCount, inaccessibleInternalLinksCount,
                 ret, poolVars, hist>>

\* Analyze at line 30: html.Parse returned the tree of some page of the kinds
\* Kinds and the result was allocated; AnalyzePage waits in its call of
\* analyzer.Analyze.
ExtractInitOver(Kinds) ==
    /\ ctx = "background"
    /\ pageURL = GoodPageURL
    /\ transport = [kind |-> "status", code |-> 200]
    /\ callCount = 0
    /\ pc = "analyze"
    /\ response = [nil |-> FALSE, open |-> TRUE, StatusCode |-> 0]
    /\ result = NilResult
    /\ internalLinks = <<>>
    /\ externalLinks = <<>>
    /\ internalLinksFormatted = <<>>
    /\ inaccessibleExternalLinksCount = 0
    /\ inaccessibleInternalLinksCount = 0
    /\ ret = [returned |-> FALSE, dto |-> NilDTO, err |-> NilErr]
    /\ call = "none"
    /\ links = <<>>
    /\ jobs = <<>>
    /\ jobsClosed = FALSE
    /\ results = <<>>
    /\ resultsClosed = FALSE
    /\ wg = 0
    /\ w = 0
    /\ next = 1
    /\ inaccessibleCount = 0
    /\ workers = EmptyBag
    /\ hist = [NoHist EXCEPT !.gets = 1]
    /\ \E K \in Kinds, n \in 0..MaxNodes : doc \in TreesOf(K, n)
    /\ apc = "call"
    /\ stack = <<>>
    /\ analysis = NewAnalysisResult
    /\ xhist = NoTraversal
    /\ analyzeRet = NoReturn

ExtractInit == ExtractInitOver(PageKinds)

\* attr.Key == "type" && strings.ToLower(attr.Val) == "password" holds for
\* an attribute of the input element n.
IsPasswordInput(n) ==
    /\ Node(n).Type = "ElementNode"
    /\ Node(n).Data = "input"
    /\ \E k \in 1..Len(Node(n).Attr) :
          /\ Node(n).Attr[k].Key = "type"
          /\ ToLower(Node(n).Attr[k].Val) = "password"

\* containsPasswordInput(n), and its loop over the children from c on.
RECURSIVE containsPasswordInput(_), ScanChildren(_)
containsPasswordInput(n) ==
    IF IsPasswordInput(n) THEN TRUE ELSE ScanChildren(FirstChild(n))

ScanChildren(c) ==
    IF c = Nil THEN FALSE
    ELSE IF containsPasswordInput(c) THEN TRUE
    ELSE ScanChildren(NextSibling(c))

\* Mutant of AnchorHrefs: an empty href is appended too.
AnchorHrefsKeepsEmpty(attrs) ==
    LET hrefs == SelectSeq(attrs, LAMBDA a : a.Key = "href")
    IN [k \in 1..Len(hrefs) |-> hrefs[k].Val]

\* The values the loop over n.Attr of an anchor appends to result.Links.
RECURSIVE AnchorHrefs(_)
AnchorHrefs(attrs) ==
    IF attrs = <<>> THEN <<>>
    ELSE LET attr == Head(attrs)
         IN (IF attr.Key = "href" /\ attr.Val # "" THEN <<attr.Val>> ELSE <<>>)
                \o AnchorHrefs(Tail(attrs))

\* Mutant of TitleRule: the title is set once, by the first title element.
TitleRuleFirstWins(n, title) ==
    IF FirstChild(n) # Nil /\ title = "" THEN Node(FirstChild(n)).Data ELSE title

\* case "title": if n.FirstChild != nil { result.Title = n.FirstChild.Data }
TitleRule(n, title) ==
    IF FirstChild(n) # Nil THEN Node(FirstChild(n)).Data ELSE title

\* Mutant of Increment: the count of the tag is set to one.
IncrementSetsOne(headings, tag) == [headings EXCEPT !.m = (tag :> 1) @@ @]

\* result.Headings[tag]++ on a Go map: a missing key counts as 0.
Increment(headings, tag) ==
    IF tag \in DOMAIN headings.m THEN [headings EXCEPT !.m[tag] = @ + 1]
    ELSE [headings EXCEPT !.m = @ @@ (tag :> 1)]

\* result.Headings[n.Data]++ panics: assignment to an entry of a nil map.
Panics(n, r) ==
    /\ Node(n).Type = "ElementNode"
    /\ Node(n).Data \in HeadingTags
    /\ r.Headings.nil

\* Mutant of VersionOf: only the doctype without identifiers counts.
VersionOfPlainDoctype(node, version) ==
    IF node.Type = "DoctypeNode" /\ node.Attr = <<>> THEN "HTML5" ELSE version

\* if n.Type == html.DoctypeNode { result.HTMLVersion = "HTML5" }
VersionOf(node, version) ==
    IF node.Type = "DoctypeNode" THEN "HTML5" ELSE version

\* Mutant of FormRule: the scan also takes the href of an anchor that is the
\* first child of the form.
FormRuleScanAppends(n, r) ==
    LET c == FirstChild(n)
    IN IF ~r.HasLoginForm
       THEN [r EXCEPT !.HasLoginForm = containsPasswordInput(n),
                      !.Links = IF c # Nil /\ Node(c).Data = "a"
                                THEN @ \o AnchorHrefs(Node(c).Attr)
                                ELSE @]
       ELSE r

\* Mutant of FormRule: the flag is assigned at every form.
FormRuleRescans(n, r) ==
    [r EXCEPT !.HasLoginForm = containsPasswordInput(n)]

\* case "form": if !result.HasLoginForm {
\*     result.HasLoginForm = containsPasswordInput(n) }
FormRule(n, r) ==
    IF ~r.HasLoginForm
    THEN [r EXCEPT !.HasLoginForm = containsPasswordInput(n)]
    ELSE r

\* The rules traverseTags applies to the node n before it goes to the
\* children of n: r is *result before, the value is *result after.
NodeRules(n, r) ==
    LET node == Node(n)
        r1 == [r EXCEPT !.HTMLVersion = VersionOf(node, @)]
    IN IF node.Type # "ElementNode" THEN r1
       ELSE CASE node.Data = "title" -> [r1 EXCEPT !.Title = TitleRule(n, @)]
              [] node.Data \in HeadingTags ->
                    [r1 EXCEPT !.Headings = Increment(@, node.Data)]
              [] node.Data = "a" -> [r1 EXCEPT !.Links = @ \o AnchorHrefs(node.Attr)]
              [] node.Data = "form" -> FormRule(n, r1)
              [] OTHER -> r1

\* A call of traverseTags, by Analyze on the document node or by the loop of
\* the innermost active call on its child c: the rules are applied to the
\* node and the loop over its children starts; a panic ends the program.
traverseTags ==
    /\ apc \in {"call", "traverse"}
    /\ apc = "traverse" => stack[Len(stack)].c # Nil
    /\ LET n == IF apc = "call" THEN Root ELSE stack[Len(stack)].c
       IN IF Panics(n, analysis)
          THEN /\ apc' = "panic"
               /\ UNCHANGED <<analysis, stack, xhist>>
          ELSE /\ analysis' = NodeRules(n, analysis)
               /\ stack' = Append(stack, [n |-> n, c |-> FirstChild(n)])
               /\ xhist' = [visited |-> Append(xhist.visited, n),
                            scanned |-> IF /\ Node(n).Type = "ElementNode"
                                           /\ Node(n).Data = "form"
                                           /\ ~analysis.HasLoginForm
                                        THEN Append(xhist.scanned, n)
                                        ELSE xhist.scanned]
               /\ apc' = "traverse"
    /\ UNCHANGED <<doc, analyzeRet, serviceVars>>

\* The loop over the children of the innermost active call is over (c ==
\* nil): the call returns, and its caller goes on with c = c.NextSibling;
\* when the call on the document node returns, Analyze returns result, nil.
traverseTagsReturn ==
    /\ apc = "traverse"
    /\ stack[Len(stack)].c = Nil
    /\ LET callers == SubSeq(stack, 1, Len(stack) - 1)
       IN IF callers = <<>>
          THEN /\ stack' = <<>>
               /\ analyzeRet' = AnalyzeReturn
               /\ apc' = "done"
          ELSE /\ stack' = [callers EXCEPT ![Len(callers)].c = NextSibling(@)]
               /\ apc' = "traverse"
               /\ UNCHANGED analyzeRet
    /\ UNCHANGED <<doc, analysis, xhist, serviceVars>>

ExtractNext == traverseTags \/ traverseTagsReturn

ExtractSpec == ExtractInit /\ [][ExtractNext]_vars

\* Analyze runs on the goroutine of its caller and nothing suspends it: a
\* step that can be taken is taken.  The order of the traversal depends on
\* the shape of the tree only, so the pages are those of two kinds of nodes.
ExtractFairSpec ==
    ExtractInitOver({ShapeKinds}) /\ [][ExtractNext]_vars /\ WF_vars(ExtractNext)

(* ------------------------------- claims -------------------------------- *)

\* Number of links of ls whose request cannot be constructed.
Malformed(ls) == Cardinality({k \in 1..Len(ls) : ParseFails(ls[k])})

\* Number of calls answered 404 by the every-third transport among the m
\* calls that follow the first c0.
FailingCalls(c0, m) == Cardinality({k \in (c0 + 1)..(c0 + m) : k % 3 = 0})

\* The number of inaccessible links of ls when the outcome of every probe is
\* fixed by the link and by the transport, with no reference to the order in
\* which the workers run.
FixedInaccessible(ls, c0) ==
    LET bad == Malformed(ls)
    IN CASE transport.kind = "status" ->
                IF transport.code \in 200..399 THEN bad ELSE Len(ls)
         [] transport.kind = "error" -> Len(ls)
         [] transport.kind = "everyThird" -> bad + FailingCalls(c0, Len(ls) - bad)

IsBusy(x) == x.pc \in {"do", "send"}

\* C1: in every interleaving countInaccessibleLinks returns the number of
\* outcomes that were inaccessible, and when the context is not cancelled that
\* number is the one fixed by the links and the transport alone.
C1_CountOfInaccessibleOutcomes ==
    pc = "return" =>
        /\ inaccessibleCount = hist.inaccessible
        /\ ~CtxDone => inaccessibleCount = FixedInaccessible(links, hist.callCount0)

\* C1 witness: two well-formed links probed through the every-third
\* transport, one of them answered 404.
C1_Witness ==
    /\ pc = "return"
    /\ transport.kind = "everyThird"
    /\ ~CtxDone
    /\ Len(links) = 2
    /\ Malformed(links) = 0
    /\ inaccessibleCount = 1

\* C2: every enqueued URL occurrence is either still queued or was dequeued
\* once, every dequeued occurrence has produced one outcome or is still being
\* probed, and when the wait on the workers completes the results channel
\* holds exactly one outcome per submitted URL.
C2_OneOutcomePerURL ==
    /\ hist.dequeued + Len(jobs) = next - 1
    /\ hist.dequeued = hist.outcomes + CountWorkers({x \in BagToSet(workers) : IsBusy(x)})
    /\ pc = "closeResults" =>
          /\ Len(results) = Len(links)
          /\ hist.outcomes = Len(links)
          /\ hist.dequeued = Len(links)

\* C2 witness: the wait completes for a list with more links than workers.
C2_Witness ==
    /\ pc = "closeResults"
    /\ Len(links) = ManyLinks
    /\ Len(results) = ManyLinks

\* C3: at most 10 probes are in flight at any moment of AnalyzePage.
C3_AtMostTenInFlight == InFlight <= 10

\* C3 witness: all 10 workers are in flight at once.
C3_Witness == InFlight = 10 /\ Len(links) > 10


\* C4: under fair scheduling, with a transport that always returns, every
\* call of countInaccessibleLinks reaches its return statement, with every
\* worker gone and every outcome drained.
C4_CountEventuallyReturns ==
    (pc = "spawn") ~> (pc = "return" /\ workers = EmptyBag /\ results = <<>> /\ wg = 0)

\* C4 witness: the call over more links than workers has returned, after
\* all of its workers exited.
C4_Witness ==
    /\ pc = "return"
    /\ Len(links) = ManyLinks
    /\ hist.outcomes = ManyLinks
    /\ workers = EmptyBag


InCall == pc \in {"spawn", "send", "wait", "closeResults", "collect"}

\* An accessible outcome is about to be sent after this step that was not
\* about to be sent before it.
NewAccessibleOutcome ==
    \E x \in BagToSet(workers') :
        /\ x.pc = "send"
        /\ x.val
        /\ CopiesIn(x, workers') > CopiesIn(x, workers)

\* C5: once the context is done no probe resolves to accessible any more
\* (those in flight and those not yet started resolve to inaccessible), a call
\* entered with a done context returns len(links), and a call during which
\* the context is done reaches its return statement.
C5_CancelledProbesAreInaccessible ==
    /\ [][CtxDone => ~NewAccessibleOutcome]_vars
    /\ [](pc = "return" /\ hist.doneAtEntry => inaccessibleCount = Len(links))
    /\ (CtxDone /\ InCall) ~> (pc = "return" /\ workers = EmptyBag)

\* C5 witness: the context was cancelled during a call over two well-formed
\* links that the transport answers with 200; one outcome was sent before the
\* cancellation, the other probe resolved to inaccessible.
C5_Witness ==
    /\ pc = "return"
    /\ CtxDone
    /\ ~hist.doneAtEntry
    /\ transport = [kind |-> "status", code |-> 200]
    /\ Len(links) = 2
    /\ Malformed(links) = 0
    /\ inaccessibleCount = 1

\* C6: a probe that obtained a response is judged accessible iff
\* 200 <= status < 400; 199, 400, 404, 500 are inaccessible and 200, 299, 300,
\* 399 accessible, also in the count that is returned.
C6_AccessibleIffStatusIn200To399 ==
    /\ \A x \in BagToSet(workers) :
          x.status # 0 =>
              /\ x.val <=> (200 <= x.status /\ x.status < 400)
              /\ x.status \in {199, 400, 404, 500} => ~x.val
              /\ x.status \in {200, 299, 300, 399} => x.val
    /\ (pc = "return" /\ transport.kind = "status" /\ ~CtxDone /\ Malformed(links) = 0) =>
          inaccessibleCount = IF transport.code \in {199, 400, 404, 500} THEN Len(links)
                              ELSE 0

\* C6 witness: two links answered 399 were both counted accessible.
C6_Witness ==
    /\ pc = "return"
    /\ transport = [kind |-> "status", code |-> 399]
    /\ ~CtxDone
    /\ links = <<ExtLink, ExtLink>>
    /\ hist.outcomes = 2
    /\ inaccessibleCount = 0

\* C7: a link whose request cannot be constructed and a probe whose transport
\* call fails each give one inaccessible outcome, without ending the worker:
\* workers leave only on the closed and drained queue, the count is at least
\* the number of malformed links, and with a transport that always fails it
\* is len(links).
C7_FailuresCountOnce ==
    /\ \A x \in BagToSet(workers) :
          (x.pc = "send" /\ (ParseFails(x.link) \/ x.status = 0)) => ~x.val
    /\ wg < hist.spawned => (jobsClosed /\ jobs = <<>>)
    /\ pc = "return" => inaccessibleCount >= Malformed(links)
    /\ (pc = "return" /\ transport.kind = "error") => inaccessibleCount = Len(links)
    /\ (pc = "return" /\ Malformed(links) = Len(links)) => inaccessibleCount = Len(links)

\* C7 witness: a malformed link and a link whose transport call failed were
\* both counted.
C7_Witness ==
    /\ pc = "return"
    /\ transport.kind = "error"
    /\ ~CtxDone
    /\ links = <<BadLink, ExtLink>>
    /\ inaccessibleCount = 2

\* C8 as stated: for an empty list no worker is spawned, no probe is issued
\* and 0 is returned.
C8_Original ==
    (call # "none" /\ links = <<>>) =>
        /\ hist.spawned = 0
        /\ hist.dequeued = 0
        /\ pc = "return" => inaccessibleCount = 0

\* C8 amended: for an empty list countInaccessibleLinks returns 0 without
\* issuing any probe; it does spawn its 10 workers, which all leave without
\* taking a job.
C8_EmptyListReturnsZeroWithoutProbe ==
    (call # "none" /\ links = <<>>) =>
        /\ hist.dequeued = 0
        /\ hist.outcomes = 0
        /\ InFlight = 0
        /\ pc = "return" =>
              /\ inaccessibleCount = 0
              /\ hist.spawned = 10
              /\ workers = EmptyBag

\* C8 witness: the call over an empty list has returned, its 10 workers
\* spawned and gone.
C8_Witness ==
    /\ pc = "return"
    /\ links = <<>>
    /\ hist.spawned = 10
    /\ wg = 0
    /\ inaccessibleCount = 0

\* C9: once the page was fetched and parsed, AnalyzePage returns a result
\* and a nil error, whatever the outcomes of the probes.
C9_ProbeFailuresAbsorbed ==
    /\ (ret.returned /\ ~result.nil) => (ret.err = NilErr /\ ~ret.dto.nil)
    /\ (~result.nil /\ ~ret.returned) => pc \in {"spawn", "send", "wait", "closeResults",
                                                "collect", "return", "assemble"}

\* C9 witness: AnalyzePage returned a result with a nil error although a
\* malformed link and a failed transport call were met.
C9_Witness ==
    /\ ret.returned
    /\ ret.err = NilErr
    /\ transport.kind = "error"
    /\ ret.dto.ExternalLinks = <<BadLink, ExtLink>>
    /\ ret.dto.InaccessibleExternalLinksCount = 2

\* C10: on every return path of AnalyzePage exactly one of the result and
\* the error is non-nil.
C10_ResultXorError ==
    /\ pc = "returned" <=> ret.returned
    /\ ret.returned => (ret.dto.nil <=> ret.err # NilErr)

\* C10 witness: the return on a page status outside [200,300), with a nil
\* result and an error.
C10_Witness ==
    /\ ret.returned
    /\ ret.dto.nil
    /\ ret.err.msg = "request failed with status code: %d"
    /\ ret.err.code = 300

\* C11: when the page fetch returns a status code outside [200,300),
\* AnalyzePage returns at once a nil result and the error "request failed
\* with status code: <code>" with that very code; no extraction was made and
\* no link probe was or will be issued.
C11_StatusErrorWithoutExtraction ==
    /\ [][(pc = "status" /\ pc' # "status" /\ response.StatusCode \notin 200..299) =>
            /\ ret'.returned
            /\ ret'.dto.nil
            /\ ret'.err = Err("request failed with status code: %d", response.StatusCode)
            /\ result'.nil
            /\ call' = "none"
            /\ hist'.heads = 0]_vars
    /\ []((ret.returned /\ ret.err.msg = "request failed with status code: %d") =>
            /\ ret.dto.nil
            /\ ret.err.code = response.StatusCode
            /\ result.nil
            /\ call = "none"
            /\ workers = EmptyBag
            /\ hist.heads = 0
            /\ hist.dequeued = 0)

\* C11 witness: the page was answered 300 and AnalyzePage returned the status
\* error carrying 300.
C11_Witness ==
    /\ ret.returned
    /\ response.StatusCode = 300
    /\ ret.err = Err("request failed with status code: %d", 300)
    /\ ret.dto.nil
    /\ hist.gets = 1

\* C12: a page URL from which no request can be constructed makes
\* AnalyzePage return, without any call of the transport, an error that wraps
\* the construction error under "failed to create request"; an error of the
\* transport call is returned as it is, so that under a cancelled context
\* the error returned is context.Canceled. Nothing is extracted or probed.
C12_FetchFailuresSurfaceAtOnce ==
    /\ [][(pc = "start" /\ pc' # "start" /\ ParseFails(pageURL)) =>
            /\ ret'.returned
            /\ ret'.dto.nil
            /\ ret'.err.msg = "failed to create request: %w"
            /\ Is(ret'.err, "parse error")
            /\ hist'.gets = 0]_vars
    /\ [][(pc = "fetch" /\ ret'.returned) =>
            /\ ret'.dto.nil
            /\ \E a \in PageAnswers : a.err # NilErr /\ ret'.err = a.err
            /\ CtxDone => Is(ret'.err, "context canceled")]_vars
    /\ []((ret.returned /\ response.nil) =>
            /\ ret.dto.nil
            /\ ret.err # NilErr
            /\ hist.gets = (IF ret.err.msg = "failed to create request: %w" THEN 0 ELSE 1)
            /\ result.nil
            /\ call = "none"
            /\ hist.heads = 0)

\* C12 witness: the transport was called once under a cancelled context and
\* AnalyzePage returned context.Canceled.
C12_Witness ==
    /\ ret.returned
    /\ CtxDone
    /\ hist.gets = 1
    /\ response.nil
    /\ ret.dto.nil
    /\ ret.err = Err("context canceled", 0)

\* Number of HEAD requests handed to the transport for the list ls: one for
\* every entry from which a request can be constructed.
ProbesOf(ls) == Len(ls) - Malformed(ls)

\* A probe is issued only inside one of the two countInaccessibleLinks calls,
\* which start after the page was fetched with a status in [200,300), parsed
\* and classified.
ProbeFollowsClassification ==
    hist'.heads # hist.heads =>
        /\ hist'.heads = hist.heads + 1
        /\ hist.gets = 1
        /\ ~response.nil
        /\ response.open
        /\ ~result.nil
        /\ call \in {"external", "internal"}
        /\ pc \in {"spawn", "send", "wait"}
        /\ LET c == Classify(result.Links, BaseURL(pageURL), Len(result.Links))
           IN /\ internalLinks = c.internalLinks
              /\ externalLinks = c.externalLinks
              /\ internalLinksFormatted = c.internalLinksFormatted
              /\ links = IF call = "external" THEN externalLinks
                         ELSE internalLinksFormatted

\* An execution that returns an error issued no probe; no occurrence of a URL
\* is taken from the queue twice, so that a successful execution issued one
\* probe per well-formed occurrence.
OneProbePerOccurrence ==
    /\ (ret.returned /\ ret.dto.nil) => hist.heads = 0
    /\ hist.dequeued <= Len(links)
    /\ (pc = "returned" /\ ~ret.dto.nil) =>
          hist.heads = ProbesOf(externalLinks) + ProbesOf(internalLinksFormatted)

\* C13 as stated, at the return of AnalyzePage: every execution has issued
\* exactly one GET, and one probe per occurrence only after a successful
\* fetch.
C13_Original ==
    /\ ret.returned => hist.gets = 1
    /\ OneProbePerOccurrence

\* C13 amended: an execution issues at most one GET, never a second one:
\* exactly one when the request could be constructed, none when it could not;
\* the probes come only after the successful fetch, the extraction and the
\* classification, each occurrence once.
C13_AtMostOneFetchThenProbes ==
    /\ [](hist.gets <= 1)
    /\ [](ret.returned => hist.gets = (IF ParseFails(pageURL) THEN 0 ELSE 1))
    /\ [][hist'.gets # hist.gets => (pc = "start" /\ hist.gets = 0)]_vars
    /\ [][ProbeFollowsClassification]_vars
    /\ []OneProbePerOccurrence

\* C13 witness: a successful execution that issued one GET and then one
\* probe for each of its two links.
C13_Witness ==
    /\ ret.returned
    /\ ~ret.dto.nil
    /\ hist.gets = 1
    /\ result.Links = <<RelLink, ExtLink>>
    /\ hist.heads = 2

\* The absolute form of an internal link: origin + link for a root-relative
\* link, the link itself when it contains the origin.
AbsoluteForm(link, baseURL) ==
    IF HasPrefix(link, <<"/">>) THEN baseURL \o link ELSE link

\* C14 as stated: the internal call of the prober is made over the absolute
\* forms of all the links classified internal, and it has taken every one of
\* them from its queue when AnalyzePage returns, so that the internal probes
\* are as many as InternalLinksCount.
C14_Original ==
    /\ call = "internal" =>
          links = [k \in 1..Len(internalLinks) |->
                      AbsoluteForm(internalLinks[k], BaseURL(pageURL))]
    /\ (pc = "returned" /\ ~ret.dto.nil) =>
          /\ call = "internal"
          /\ hist.dequeued = ret.dto.InternalLinksCount

\* C15: in every result returned by AnalyzePage the two lists have the
\* lengths given by the two link counts, and each inaccessible count lies
\* between 0 and the link count of its partition.
C15_CountsConsistent ==
    (ret.returned /\ ~ret.dto.nil) =>
        /\ Len(ret.dto.InternalLinks) = ret.dto.InternalLinksCount
        /\ Len(ret.dto.ExternalLinks) = ret.dto.ExternalLinksCount
        /\ 0 <= ret.dto.InaccessibleInternalLinksCount
        /\ ret.dto.InaccessibleInternalLinksCount <= ret.dto.InternalLinksCount
        /\ 0 <= ret.dto.InaccessibleExternalLinksCount
        /\ ret.dto.InaccessibleExternalLinksCount <= ret.dto.ExternalLinksCount

\* C15 witness: a result with one internal link, found inaccessible, and one
\* external link, found inaccessible.
C15_Witness ==
    /\ ret.returned
    /\ ret.dto.InternalLinks = <<RelLink>>
    /\ ret.dto.InternalLinksCount = 1
    /\ ret.dto.InaccessibleInternalLinksCount = 1
    /\ ret.dto.ExternalLinks = <<ExtLink>>
    /\ ret.dto.ExternalLinksCount = 1
    /\ ret.dto.InaccessibleExternalLinksCount = 1

\* The set of entries of the list s.
Range(s) == {s[k] : k \in 1..Len(s)}

\* C16: after the classification the internal and the external list hold
\* together as many entries as rawLinks, no link is in both, and each list is
\* rawLinks with the entries of the other list left out, in the same order.
C16_NothingDroppedOrderKept ==
    pc = "classified" =>
        /\ Len(internalLinks) + Len(externalLinks) = Len(result.Links)
        /\ Range(internalLinks) \cap Range(externalLinks) = {}
        /\ Range(internalLinks) \cup Range(externalLinks) = Range(result.Links)
        /\ internalLinks = SelectSeq(result.Links, LAMBDA l : l \in Range(internalLinks))
        /\ externalLinks = SelectSeq(result.Links, LAMBDA l : l \in Range(externalLinks))

\* C16 witness: three links, the first and the last internal, the middle one
\* external, each list in the order of rawLinks.
C16_Witness ==
    /\ pc = "classified"
    /\ pageURL = GoodPageURL
    /\ result.Links = <<SameOriginLink, MailtoLink, RelLink>>
    /\ internalLinks = <<SameOriginLink, RelLink>>
    /\ externalLinks = <<MailtoLink>>

\* C17: a raw link is classified internal iff it starts with "/" or
\* contains scheme://host of the page anywhere; the others are external and
\* unmodified, and a root-relative link is kept in its relative form in the
\* internal list (its absolute form goes to the list for the prober). On the
\* page https://a.com/y: /x, //b.com, https://a.com/z and
\* https://b.com/?u=https://a.com are internal; https://b.com, mailto:, tel:,
\* #anchor, x/y and ://invalid-url are external.
C17_InternalIffRootRelativeOrSameOrigin ==
    pc = "classified" =>
        LET baseURL == BaseURL(pageURL)
            IsInternal(l) == HasPrefix(l, <<"/">>) \/ Contains(l, baseURL)
            rel == SelectSeq(result.Links, LAMBDA l : HasPrefix(l, <<"/">>))
        IN /\ internalLinks = SelectSeq(result.Links, IsInternal)
           /\ externalLinks = SelectSeq(result.Links, LAMBDA l : ~IsInternal(l))
           /\ internalLinksFormatted = [k \in 1..Len(rel) |-> baseURL \o rel[k]]
           /\ pageURL = GoodPageURL =>
                 /\ Range(internalLinks) \subseteq
                        {RelLink, ProtocolRelativeLink, SameOriginLink, EmbeddedOriginLink}
                 /\ Range(externalLinks) \subseteq
                        {ExtLink, MailtoLink, TelLink, FragmentLink, NoSlashPath, BadLink}
           /\ pageURL = OtherPageURL =>
                 /\ Range(internalLinks) \subseteq {RelLink, ProtocolRelativeLink}
                 /\ Range(externalLinks) \cap {RelLink, ProtocolRelativeLink} = {}

\* C17 witness: the link that carries the origin in its query is internal,
\* the root-relative link is internal in its relative form, the fragment is
\* external.
C17_Witness ==
    /\ pc = "classified"
    /\ pageURL = GoodPageURL
    /\ result.Links = <<EmbeddedOriginLink, FragmentLink, RelLink>>
    /\ internalLinks = <<EmbeddedOriginLink, RelLink>>
    /\ externalLinks = <<FragmentLink>>
    /\ internalLinksFormatted = <<<<"https", "://", "a.com", "/", "x">>>>

\* The spellings of "password" that differ in case only.
PasswordSpellings == {"password", "Password", "PASSWORD"}

\* Node i of the page is an input element with a type attribute that is
\* "password" up to case.
IsPasswordField(i) ==
    /\ doc[i].Type = "ElementNode"
    /\ doc[i].Data = "input"
    /\ \E k \in 1..Len(doc[i].Attr) :
          doc[i].Attr[k].Key = "type" /\ doc[i].Attr[k].Val \in PasswordSpellings

\* Some form element of the page has a password field below it.
SomeFormHoldsPasswordField ==
    \E f, i \in 1..Len(doc) :
        /\ doc[f].Type = "ElementNode"
        /\ doc[f].Data = "form"
        /\ IsPasswordField(i)
        /\ f # i
        /\ f \in AncestorsOrSelf(doc, i)

\* C18: when Analyze returns, HasLoginForm is true iff some form element of
\* the tree has, at any depth below it, an input whose type attribute is
\* "password" up to case; a password input below no form does not set it.
C18_LoginFormIffPasswordInForm ==
    apc = "done" => (analysis.HasLoginForm <=> SomeFormHoldsPasswordField)

\* C18 witness: the password input lies two levels below the form, its type
\* written "Password".
C18_Witness ==
    /\ apc = "done"
    /\ analysis.HasLoginForm
    /\ Len(doc) = 3
    /\ doc[1].Data = "form"
    /\ doc[2].Data = "div" /\ doc[2].Parent = 1
    /\ IsPasswordField(3) /\ doc[3].Parent = 2

\* The non-empty href values of the anchors among the first i nodes of the
\* page, in document order.
RECURSIVE HrefsUpTo(_)
HrefsUpTo(i) ==
    IF i = 0 THEN <<>>
    ELSE LET hrefs == SelectSeq(doc[i].Attr, LAMBDA a : a.Key = "href" /\ a.Val # "")
         IN HrefsUpTo(i - 1) \o
                (IF doc[i].Type = "ElementNode" /\ doc[i].Data = "a"
                 THEN [k \in 1..Len(hrefs) |-> hrefs[k].Val]
                 ELSE <<>>)

\* C19: when Analyze returns, Links is the sequence of the non-empty href
\* values of the anchor elements of the tree in document order, whatever
\* their depth; an anchor with an empty href or without href adds nothing.
C19_LinksAreNonEmptyHrefsInOrder ==
    apc = "done" => analysis.Links = HrefsUpTo(Len(doc))

\* C19 witness: an anchor, then an element holding an anchor with an empty
\* href and an anchor with an href; the two hrefs are in Links in that order.
C19_Witness ==
    /\ apc = "done"
    /\ Len(doc) = 4
    /\ doc[1].Data = "a" /\ doc[1].Parent = Root
    /\ doc[2].Data = "div" /\ doc[2].Parent = Root
    /\ doc[3].Attr = <<Attribute("href", "")>> /\ doc[3].Parent = 2
    /\ doc[4].Data = "a" /\ doc[4].Parent = 2
    /\ analysis.Links = <<"link2.html", "link1.html">>

\* The title elements of the page, and those that have a child.
Titles == {i \in 1..Len(doc) : doc[i].Type = "ElementNode" /\ doc[i].Data = "title"}
TitlesWithChild == {i \in Titles : \E j \in 1..Len(doc) : doc[j].Parent = i}

\* The last node of the non-empty set S in document order.
Last(S) == CHOOSE i \in S : \A j \in S : j <= i

\* The text of the title element i: the data of its text child, the empty
\* string when it has none.
TitleText(i) == IF i \in TitlesWithChild THEN doc[i + 1].Data ELSE ""

\* C20 as stated: when Analyze returns, Title is the text of the last title
\* element of the tree, and the empty string when there is none.
C20_Original ==
    apc = "done" =>
        analysis.Title = (IF Titles = {} THEN "" ELSE TitleText(Last(Titles)))

\* C20 amended: when Analyze returns, Title is the text, verbatim, of the
\* last title element that has a child (a title element without content
\* leaves the title of an earlier one in place), and the empty string when no
\* title element has a child.
C20_TitleOfLastTitleWithContent ==
    apc = "done" =>
        analysis.Title = (IF TitlesWithChild = {} THEN ""
                          ELSE TitleText(Last(TitlesWithChild)))

\* C20 witness: two title elements with a text each; Title is the text of
\* the second, with its surrounding blanks.
C20_Witness ==
    /\ apc = "done"
    /\ Len(doc) = 4
    /\ Titles = {1, 3}
    /\ doc[2].Data = "First Title"
    /\ doc[4].Data = "   Spaced Title   "
    /\ analysis.Title = "   Spaced Title   "

\* The elements of the page with the tag.
ElementsWith(tag) ==
    {i \in 1..Len(doc) : doc[i].Type = "ElementNode" /\ doc[i].Data = tag}

\* C21: when Analyze returns, the keys of Headings are the tags among h1..h6
\* that occur in the tree (none for a page without headings, where the map
\* is empty), and Headings[tag] is the number of elements with that tag,
\* whatever their depth.
C21_HeadingsCountPerTag ==
    apc = "done" =>
        /\ ~analysis.Headings.nil
        /\ DOMAIN analysis.Headings.m = {tag \in HeadingTags : ElementsWith(tag) # {}}
        /\ \A tag \in DOMAIN analysis.Headings.m :
              analysis.Headings.m[tag] = Cardinality(ElementsWith(tag))

\* C21 witness: an h1, then an element holding an h1 and an h2; Headings
\* counts two h1 and one h2.
C21_Witness ==
    /\ apc = "done"
    /\ Len(doc) = 4
    /\ doc[1].Data = "h1" /\ doc[1].Parent = Root
    /\ doc[2].Data = "div" /\ doc[2].Parent = Root
    /\ doc[3].Data = "h1" /\ doc[3].Parent = 2
    /\ doc[4].Data = "h2" /\ doc[4].Parent = 2
    /\ DOMAIN analysis.Headings.m = {"h1", "h2"}
    /\ analysis.Headings.m["h1"] = 2
    /\ analysis.Headings.m["h2"] = 1

\* C22: when Analyze returns, HTMLVersion is "HTML5" if the tree holds a
\* doctype node, whatever its content, and the empty string if it holds none.
C22_VersionIffDoctype ==
    apc = "done" =>
        analysis.HTMLVersion =
            (IF \E i \in 1..Len(doc) : doc[i].Type = "DoctypeNode" THEN "HTML5" ELSE "")

\* C22 witness: the page starts with an HTML 4.01 doctype and is reported
\* as HTML5.
C22_Witness ==
    /\ apc = "done"
    /\ Len(doc) >= 2
    /\ doc[1].Type = "DoctypeNode"
    /\ doc[1].Attr # <<>>
    /\ analysis.HTMLVersion = "HTML5"

\* C23: on every tree of the parser the extraction does not fail: it does not
\* panic, and when Analyze returns its error is nil, its result is not nil
\* and the Headings map of the result is initialised.
C23_ExtractionNeverFails ==
    /\ apc # "panic"
    /\ apc = "done" =>
          /\ analyzeRet.returned
          /\ analyzeRet.err = NilErr
          /\ ~analyzeRet.resultNil
          /\ ~analysis.Headings.nil

\* C23 witness: Analyze returned for a page whose tree holds nothing but one
\* element without a rule, as the tree of an empty or garbage input does.
C23_Witness ==
    /\ apc = "done"
    /\ Len(doc) = 1
    /\ doc[1].Data \in {"div", "head"}
    /\ analyzeRet.returned
    /\ analysis.Headings = MakeMap

\* C24: in every step of the traversal HasLoginForm, once true, stays true,
\* and a form is scanned for a password input only in a step that starts
\* with the flag false, so no form visited after the flag was set is scanned.
C24_FlagMonotoneScansWhileFalse ==
    [][/\ analysis.HasLoginForm => analysis'.HasLoginForm
       /\ xhist'.scanned # xhist.scanned => ~analysis.HasLoginForm
       /\ \A k \in 1..Len(xhist'.scanned) :
             \A j \in 1..Len(xhist'.visited) :
                (/\ xhist'.visited[j] < xhist'.scanned[k]
                 /\ Node(xhist'.visited[j]).Type = "ElementNode"
                 /\ Node(xhist'.visited[j]).Data = "form")
                    => ~containsPasswordInput(xhist'.visited[j])]_vars

\* C24 witness: a form with a password input, then a second form; the
\* traversal visited both, scanned the first only, and the flag is true.
C24_Witness ==
    /\ apc = "done"
    /\ Len(doc) = 3
    /\ doc[1].Data = "form" /\ doc[1].Parent = Root
    /\ IsPasswordInput(2) /\ doc[2].Parent = 1
    /\ doc[3].Data = "form" /\ doc[3].Parent = Root
    /\ xhist.visited = <<0, 1, 2, 3>>
    /\ xhist.scanned = <<1>>
    /\ analysis.HasLoginForm

\* The title elements whose first child is a text.
TitlesWithText == {i \in TitlesWithChild : doc[i + 1].Type = "TextNode"}

\* C25 as stated: a title element sets the title only if its first child is
\* a text; a title element without a child or with another first child
\* leaves the title as it was, so that when Analyze returns Title is the text
\* of the last title element whose first child is a text, and the empty
\* string when there is none.
C25_Original ==
    apc = "done" =>
        analysis.Title = (IF TitlesWithText = {} THEN ""
                          ELSE doc[Last(TitlesWithText) + 1].Data)

\* The nodes of the subtree of n in depth-first pre-order, children from left
\* to right, and those of the subtrees of c and of its later siblings.
RECURSIVE PreOrder(_), PreOrderFrom(_)
PreOrder(n) == <<n>> \o PreOrderFrom(FirstChild(n))

PreOrderFrom(c) ==
    IF c = Nil THEN <<>> ELSE PreOrder(c) \o PreOrderFrom(NextSibling(c))

\* C26: on every tree traverseTags terminates, and the nodes it has applied
\* its rules to are at any time the first nodes of the tree in depth-first
\* pre-order, children from left to right, each once; at the return they are
\* all the nodes of the tree.
C26_TerminatesPreOrderOnce ==
    /\ <>(apc = "done")
    /\ [](/\ Len(xhist.visited) <= Len(doc) + 1
          /\ xhist.visited = SubSeq(PreOrder(Root), 1, Len(xhist.visited))
          /\ \A j, k \in 1..Len(xhist.visited) :
                xhist.visited[j] = xhist.visited[k] => j = k)
    /\ [](apc = "done" => Range(xhist.visited) = 0..Len(doc))

\* C26 witness: the traversal returned on a tree of four nodes with two
\* levels: a node with two children, then a sibling of that node.
C26_Witness ==
    /\ apc = "done"
    /\ Len(doc) = 4
    /\ doc[1].Parent = Root
    /\ doc[2].Parent = 1
    /\ doc[3].Parent = 1
    /\ doc[4].Parent = Root
    /\ xhist.visited = <<0, 1, 2, 3, 4>>

\* C27: a worker that holds the open body of a probe response is between
\* the return of Do and its Close, never at the head of its loop or in a
\* request; no goroutine and no open probe body is left when
\* countInaccessibleLinks returns or later; and when AnalyzePage has returned
\* after a fetch that gave a response, the status error included, the body of
\* the page response is closed.
C27_NoBodyLeaks ==
    /\ \A x \in BagToSet(workers) : HoldsBody(x) => x.pc \in {"send", "close"}
    /\ pc \in {"collect", "return", "assemble", "returned"} =>
          (workers = EmptyBag /\ OpenProbeBodies = 0)
    /\ (pc = "spawn" /\ w = 0) => OpenProbeBodies = 0
    /\ ret.returned => ~response.open
    /\ (~ret.returned /\ ~response.nil) => response.open

\* C27 witness: a call of countInaccessibleLinks returns after two probes
\* that were answered 404: both bodies were closed, the body of the page is
\* still open until AnalyzePage returns.
C27_Witness ==
    /\ pc = "return"
    /\ transport = [kind |-> "status", code |-> 404]
    /\ ~CtxDone
    /\ hist.heads = 2
    /\ hist.inaccessible = 2
    /\ OpenProbeBodies = 0
    /\ response.open

\* A step of a goroutine of the pool.
WorkerStep == WorkerRecv \/ WorkerDoReturn \/ WorkerSend \/ WorkerClose \/ WorkerExit

\* C28: a step of a worker leaves the state of the analysis and of its
\* caller as it is (the link lists, the counts, the counter, the result, the
\* position of the caller, the closing of the channels); all it does to the
\* channels is to take the first job of the queue or to append one outcome
\* to the results.  The counter is written only by the caller while no
\* worker exists, and incremented only in the loop over the results, after
\* the wait on the workers.
C28_WorkersShareNothing ==
    [][/\ WorkerStep =>
             /\ UNCHANGED <<inaccessibleCount, result, internalLinks, externalLinks,
                            internalLinksFormatted, inaccessibleExternalLinksCount,
                            inaccessibleInternalLinksCount, ret, response, pc,
                            call, links, next, w, jobsClosed, resultsClosed>>
             /\ jobs' = jobs \/ (jobs # <<>> /\ jobs' = Tail(jobs))
             /\ results' = results \/ \E v \in BOOLEAN : results' = Append(results, v)
       /\ inaccessibleCount' # inaccessibleCount =>
             /\ workers = EmptyBag
             /\ workers' = EmptyBag
             /\ wg = 0
       /\ inaccessibleCount' > inaccessibleCount =>
             /\ pc = "collect"
             /\ resultsClosed
             /\ hist.spawned = NumWorkers]_vars

\* C28 witness: the caller has counted two failed probes in its loop over
\* the results, after the ten workers it started were gone.
C28_Witness ==
    /\ pc = "collect"
    /\ inaccessibleCount = 2
    /\ hist.spawned = NumWorkers
    /\ hist.outcomes = 2
    /\ workers = EmptyBag

\* C29: in every interleaving the job channel is closed only after all the
\* links were enqueued and the result channel only after every worker is
\* gone, so a goroutine about to send never finds its channel closed; the
\* caller about to enqueue finds a free slot in the job channel and a worker
\* about to send its outcome finds one in the result channel, so no send
\* blocks; and no outcome is taken from the result channel before the wait
\* on the workers is over.
C29_ChannelDiscipline ==
    /\ jobsClosed => next > Len(links)
    /\ resultsClosed => (workers = EmptyBag /\ wg = 0 /\ jobsClosed)
    /\ (pc = "send" /\ next <= Len(links)) => (~jobsClosed /\ Len(jobs) < JobsCap)
    /\ \A x \in BagToSet(workers) :
          x.pc = "send" => (~resultsClosed /\ Len(results) < ResultsCap)
    /\ Len(jobs) <= JobsCap
    /\ Len(results) <= ResultsCap
    /\ pc \in {"spawn", "send", "wait", "closeResults"} => Len(results) = hist.outcomes

\* C29 witness: the caller waits on the workers while the outcomes of all
\* the links of a page with more links than workers fill the result
\* channel.
C29_Witness ==
    /\ pc = "wait"
    /\ Len(links) = ManyLinks
    /\ jobsClosed
    /\ ~resultsClosed
    /\ Len(results) = ResultsCap
    /\ workers # EmptyBag

\* C30: the step of the traversal that enters a form element, with the scan
\* for a password input it may make, leaves Title, Headings, Links and
\* HTMLVersion as they were; and when Analyze returns every heading is
\* counted once and every non-empty href appended once, those inside forms
\* and nested forms included.
C30_ScanChangesOnlyTheFlag ==
    /\ [][(/\ Len(xhist'.visited) = Len(xhist.visited) + 1
            /\ Node(xhist'.visited[Len(xhist'.visited)]).Type = "ElementNode"
            /\ Node(xhist'.visited[Len(xhist'.visited)]).Data = "form")
              => /\ analysis'.Title = analysis.Title
                 /\ analysis'.Headings = analysis.Headings
                 /\ analysis'.Links = analysis.Links
                 /\ analysis'.HTMLVersion = analysis.HTMLVersion]_vars
    /\ [](apc = "done" =>
            /\ analysis.Links = HrefsUpTo(Len(doc))
            /\ \A tag \in HeadingTags :
                  IF tag \in DOMAIN analysis.Headings.m
                  THEN analysis.Headings.m[tag] = Cardinality(ElementsWith(tag))
                  ELSE ElementsWith(tag) = {})

\* C30 witness: a form holding a form that holds a heading and an anchor;
\* both forms were scanned, the heading is counted once and the href is in
\* Links once.
C30_Witness ==
    /\ apc = "done"
    /\ Len(doc) = 4
    /\ doc[1].Data = "form" /\ doc[1].Parent = Root
    /\ doc[2].Data = "form" /\ doc[2].Parent = 1
    /\ doc[3].Data = "h1" /\ doc[3].Parent = 2
    /\ doc[4].Data = "a" /\ doc[4].Parent = 2
    /\ xhist.scanned = <<1, 2>>
    /\ analysis.Headings.m = ("h1" :> 1)
    /\ analysis.Links = <<"link1.html">>
    /\ ~analysis.HasLoginForm

====
